---- MODULE Spec2Model ----
(***************************************************************************)
(* Model of the farm-pipeline reconciliation pipeline                      *)
(* (src/src/shops_pipeline.py, src/src/models.py, src/src/utils_geo.py).   *)
(*                                                                         *)
(* Conventions                                                             *)
(*   - a Python str is a sequence of one-character strings;                *)
(*   - an Optional value is a sequence of length at most one: None is <<>> *)
(*     and a present value v is <<v>>;                                     *)
(*   - coordinates are integers in units of 0.001 degree around (0, 0).    *)
(***************************************************************************)
EXTENDS Integers, Sequences, FiniteSets, TLC

VARIABLES
  mode,      \* "main": main() from its first line; "stages": main() from line 184
             \* on a drawn candidate list; "dedupe", "scan", "permute",
             \* "geocode", "map", "parse", "rand_id": one function applied to
             \* drawn arguments
  pc,        \* the statement the run is at
  seedsFile, \* what seeds/uk.yml holds
  seeds,     \* main's local `seeds`: None, or the number of sources loaded
  raw,       \* main's local `raw`
  shops,     \* main's local `shops` (the argument, in mode "dedupe")
  deduped,   \* dedupe_shops' local `deduped` after line 139
  returned,  \* the list dedupe_shops returned
  gi,        \* geocode_missing: index of the record the loop is at
  geoLog,    \* the geocoding calls answered so far: index and outcome
  given,     \* the list geocode_missing was called with, as it was then; for
             \* dedupe_shops on two lists, the second list
  events,    \* what geocode_missing did so far: "call", "answer", "sleep"
  si,        \* dedupe_shops, second pass: index of the record being scanned
  again,     \* the result of a second map_to_shops
  draws,     \* _rand_id: the characters random.choice has returned
  nodes,     \* parse_items_from_html: the nodes the list selector matched
  schema,    \* "none", "fetched" or "failed"
  data,      \* main's local `data`
  ok,        \* main's local `ok`
  vi,        \* the validation loop's index (1-based)
  vlog,      \* the outcome of each validate() call so far
  jsonOut,   \* dist/farms.uk.json: None until written
  geoOut,    \* dist/farms.geo.json: None until written
  exit       \* the process's exit status: None while it runs

pipeVars == <<seedsFile, seeds, raw, gi, geoLog, schema, data, ok, vi, vlog,
              jsonOut, geoOut, exit>>

\* what only the function-level specifications and the geocoding trace use
auxVars == <<given, events, si, again, draws, nodes>>

vars == <<mode, pc, shops, deduped, returned, pipeVars, auxVars>>

(***************************************************************************)
(* Bounds of the model.                                                    *)
(***************************************************************************)
MaxShops == 3

MaxRaw == 2

(***************************************************************************)
(* Optional values and Python truthiness.                                  *)
(***************************************************************************)
None == <<>>

Some(v) == <<v>>

\* bool(x) of an Optional[float]: None and 0.0 are both falsy.
TruthyNum(x) == x # None /\ x[1] # 0

\* bool(x) of an Optional[str]: None and "" are both falsy.
TruthyStr(x) == x # None /\ x[1] # <<>>

B2I(b) == IF b THEN 1 ELSE 0

(***************************************************************************)
(* Strings.                                                                *)
(***************************************************************************)
\* Code point of a character (ord).
Ord(c) ==
  CASE c = " " -> 32
    [] c = "!" -> 33
    [] c = "-" -> 45
    [] c = "7" -> 55
    [] c = "A" -> 65
    [] c = "B" -> 66
    [] c = "F" -> 70
    [] c = "P" -> 80
    [] c = "Q" -> 81
    [] c = "a" -> 97
    [] c = "b" -> 98
    [] c = "f" -> 102
    [] c = "h" -> 104
    [] c = "m" -> 109
    [] c = "o" -> 111
    [] c = "p" -> 112
    [] c = "q" -> 113
    [] c = "r" -> 114
    [] c = "s" -> 115

LowerCh(c) ==
  CASE c = "A" -> "a"
    [] c = "B" -> "b"
    [] c = "F" -> "f"
    [] c = "P" -> "p"
    [] c = "Q" -> "q"
    [] c = "R" -> "r"
    [] OTHER -> c

\* str.swapcase in place of str.upper
SwapCaseCh(c) ==
  CASE c = "p" -> "P"
    [] c = "P" -> "p"
    [] OTHER -> c

UpperCh(c) ==
  CASE c = "a" -> "A"
    [] c = "b" -> "B"
    [] c = "f" -> "F"
    [] c = "h" -> "H"
    [] c = "m" -> "M"
    [] c = "o" -> "O"
    [] c = "p" -> "P"
    [] c = "q" -> "Q"
    [] c = "r" -> "R"
    [] c = "r" -> "R"
    [] c = "s" -> "S"
    [] OTHER -> c

\* str.lower() and str.upper()
Lower(s) == [i \in 1..Len(s) |-> LowerCh(s[i])]

Upper(s) == [i \in 1..Len(s) |-> UpperCh(s[i])]

\* s.replace(' ', '')
StripSpaces(s) == SelectSeq(s, LAMBDA c : c # " ")

\* ' '.join(s.split()): runs of whitespace collapse to one space, and leading
\* and trailing whitespace goes.
RECURSIVE JoinSplit(_, _, _)
JoinSplit(s, i, acc) ==
  IF i > Len(s) THEN acc
  ELSE IF s[i] = " " THEN JoinSplit(s, i + 1, acc)
  ELSE IF acc # <<>> /\ i > 1 /\ s[i - 1] = " "
       THEN JoinSplit(s, i + 1, acc \o <<" ", s[i]>>)
       ELSE JoinSplit(s, i + 1, Append(acc, s[i]))

\* Python's str < str: lexicographic by code point.
RECURSIVE StrLess(_, _)
StrLess(s, t) ==
  IF t = <<>> THEN FALSE
  ELSE IF s = <<>> THEN TRUE
  ELSE IF Ord(s[1]) # Ord(t[1]) THEN Ord(s[1]) < Ord(t[1])
  ELSE StrLess(Tail(s), Tail(t))

(***************************************************************************)
(* models.py: FarmShop.                                                    *)
(***************************************************************************)
key_name_postcode(s) ==
  LET pc0 == Upper(StripSpaces(s.location.postcode))
      nm == JoinSplit(Lower(s.name), 1, <<>>)
  IN  <<nm, pc0>>

(***************************************************************************)
(* utils_geo.py: haversine_km.                                             *)
(* Within a few thousandths of a degree of (0, 0): cos(phi) = 1 and        *)
(* sin(x) = x to better than one part in 10^8, so the distance is          *)
(* R * sqrt(dphi^2 + dlambda^2), and 0.001 degree of arc on the sphere of  *)
(* radius 6371.0088 km is 111.195 m.  Distances are compared squared, in   *)
(* square metres.                                                          *)
(***************************************************************************)
MetresPerUnit == 111

ThresholdMetres == 250

haversine_m2(lat1, lon1, lat2, lon2) ==
  LET dphi == lat2 - lat1
      dl == lon2 - lon1
  IN  MetresPerUnit * MetresPerUnit * (dphi * dphi + dl * dl)

(***************************************************************************)
(* shops_pipeline.py: dedupe_shops.                                        *)
(***************************************************************************)
\* line 136: the richness score as the code computes it
score(x) ==
  B2I(TruthyNum(x.location.lat)) + B2I(TruthyStr(x.contact.website))
    + B2I(TruthyStr(x.contact.email))

\* Position of key k in the insertion-ordered dict `seen`, 0 when absent.
SeenIndex(seen, k) ==
  IF \E i \in 1..Len(seen) : seen[i].k = k
  THEN CHOOSE i \in 1..Len(seen) : seen[i].k = k
  ELSE 0

\* A mutant of Phase1Step: a richer record is added beside the one it beats.
Phase1StepAppend(seen, s) ==
  LET k == key_name_postcode(s)
      i == SeenIndex(seen, k)
  IN  IF i = 0 THEN Append(seen, [k |-> k, v |-> s])
      ELSE IF score(s) > score(seen[i].v)
           THEN Append(seen, [k |-> k, v |-> s])
           ELSE seen

\* a first pass in which the first record seen under a key stays
Phase1StepFirst(seen, s) ==
  LET k == key_name_postcode(s)
      i == SeenIndex(seen, k)
  IN  IF i = 0 THEN Append(seen, [k |-> k, v |-> s]) ELSE seen

\* a first pass that takes the contact fields of the record it drops
Phase1StepMerge(seen, s) ==
  LET k == key_name_postcode(s)
      i == SeenIndex(seen, k)
  IN  IF i = 0 THEN Append(seen, [k |-> k, v |-> s])
      ELSE IF score(s) > score(seen[i].v)
           THEN [seen EXCEPT ![i].v = s]
           ELSE [seen EXCEPT ![i].v.contact.website =
                   IF seen[i].v.contact.website = <<>>
                   THEN s.contact.website ELSE seen[i].v.contact.website]

\* lines 129-138: one iteration of the first pass.  Assigning to an existing
\* key of a dict keeps the key's position.
Phase1Step(seen, s) ==
  LET k == key_name_postcode(s)
      i == SeenIndex(seen, k)
  IN  IF i = 0 THEN Append(seen, [k |-> k, v |-> s])
      ELSE IF score(s) > score(seen[i].v)
           THEN [seen EXCEPT ![i].v = s]
           ELSE seen

RECURSIVE Phase1Fold(_, _, _)
Phase1Fold(list, i, seen) ==
  IF i > Len(list) THEN seen
  ELSE Phase1Fold(list, i + 1, Phase1Step(seen, list[i]))

\* lines 128-139: deduped = list(seen.values())
Phase1(list) ==
  LET seen == Phase1Fold(list, 1, <<>>)
  IN  [i \in 1..Len(seen) |-> seen[i].v]

\* line 142: the sort key (s.name.lower(), s.location.postcode), compared as
\* Python compares tuples.
SortKeyLess(a, b) ==
  LET na == Lower(a.name)
      nb == Lower(b.name)
  IN  \/ StrLess(na, nb)
      \/ na = nb /\ StrLess(a.location.postcode, b.location.postcode)

\* Stable insertion: x goes after every element whose key is not greater.
RECURSIVE InsertSorted(_, _)
InsertSorted(sorted, x) ==
  IF sorted = <<>> THEN <<x>>
  ELSE IF SortKeyLess(x, sorted[1]) THEN <<x>> \o sorted
  ELSE <<sorted[1]>> \o InsertSorted(Tail(sorted), x)

RECURSIVE SortFold(_, _, _)
SortFold(list, i, acc) ==
  IF i > Len(list) THEN acc
  ELSE SortFold(list, i + 1, InsertSorted(acc, list[i]))

\* a second pass that scans the records as they come
SortShopsNone(list) == list

\* line 142: list.sort is stable
SortShops(list) == SortFold(list, 1, <<>>)

\* line 147: the guard of the proximity test, by truthiness as coded
BothLocated(r, s) ==
  /\ TruthyNum(r.location.lat) /\ TruthyNum(r.location.lng)
  /\ TruthyNum(s.location.lat) /\ TruthyNum(s.location.lng)

\* a proximity test that does not look at the names
IsDupAnyName(r, s) ==
  /\ BothLocated(r, s)
  /\ haversine_m2(r.location.lat[1], r.location.lng[1],
                  s.location.lat[1], s.location.lng[1])
       < ThresholdMetres * ThresholdMetres

\* lines 147-148: s is a duplicate of the kept record r
IsDup(r, s) ==
  /\ Lower(r.name) = Lower(s.name)
  /\ BothLocated(r, s)
  /\ haversine_m2(r.location.lat[1], r.location.lng[1],
                  s.location.lat[1], s.location.lng[1])
       < ThresholdMetres * ThresholdMetres

\* a backfill that also moves the kept record to where the duplicate is
BackfillMoves(r, s) ==
  LET w == IF TruthyStr(s.contact.website) /\ ~TruthyStr(r.contact.website)
           THEN s.contact.website ELSE r.contact.website
      e == IF TruthyStr(s.contact.email) /\ ~TruthyStr(r.contact.email)
           THEN s.contact.email ELSE r.contact.email
      p == IF TruthyStr(s.contact.phone) /\ ~TruthyStr(r.contact.phone)
           THEN s.contact.phone ELSE r.contact.phone
  IN  [r EXCEPT !.contact = [phone |-> p, email |-> e, website |-> w],
                !.location.lat = s.location.lat, !.location.lng = s.location.lng]

\* a backfill that takes every field the duplicate has
BackfillOverwrite(r, s) ==
  LET w == IF TruthyStr(s.contact.website)
           THEN s.contact.website ELSE r.contact.website
      e == IF TruthyStr(s.contact.email)
           THEN s.contact.email ELSE r.contact.email
      p == IF TruthyStr(s.contact.phone)
           THEN s.contact.phone ELSE r.contact.phone
  IN  [r EXCEPT !.contact = [phone |-> p, email |-> e, website |-> w]]

\* a backfill that forgets the phone
BackfillNoPhone(r, s) ==
  LET w == IF TruthyStr(s.contact.website) /\ ~TruthyStr(r.contact.website)
           THEN s.contact.website ELSE r.contact.website
      e == IF TruthyStr(s.contact.email) /\ ~TruthyStr(r.contact.email)
           THEN s.contact.email ELSE r.contact.email
  IN  [r EXCEPT !.contact = [phone |-> r.contact.phone, email |-> e, website |-> w]]

\* lines 151-153: keep richer contact
Backfill(r, s) ==
  LET w == IF TruthyStr(s.contact.website) /\ ~TruthyStr(r.contact.website)
           THEN s.contact.website ELSE r.contact.website
      e == IF TruthyStr(s.contact.email) /\ ~TruthyStr(r.contact.email)
           THEN s.contact.email ELSE r.contact.email
      p == IF TruthyStr(s.contact.phone) /\ ~TruthyStr(r.contact.phone)
           THEN s.contact.phone ELSE r.contact.phone
  IN  [r EXCEPT !.contact = [phone |-> p, email |-> e, website |-> w]]

\* lines 145-156: one iteration of the second pass; the first kept record
\* that matches takes the merge (break).
Phase2Step(result, s) ==
  IF \E j \in 1..Len(result) : IsDup(result[j], s)
  THEN LET j == CHOOSE j \in 1..Len(result) :
                  /\ IsDup(result[j], s)
                  /\ \A h \in 1..(j - 1) : ~IsDup(result[h], s)
       IN  [result EXCEPT ![j] = Backfill(result[j], s)]
  ELSE Append(result, s)

RECURSIVE Phase2Fold(_, _, _)
Phase2Fold(list, i, result) ==
  IF i > Len(list) THEN result
  ELSE Phase2Fold(list, i + 1, Phase2Step(result, list[i]))

\* lines 142-157
Phase2(list) == Phase2Fold(SortShops(list), 1, <<>>)

dedupe_shops(list) == Phase2(Phase1(list))

(***************************************************************************)
(* Records the function-level specifications draw.                         *)
(***************************************************************************)
MkShop(id, name, postcode, lat, lng, website, email, phone) ==
  [ id |-> id, name |-> name, slug |-> <<"a">>,
    location |-> [lat |-> lat, lng |-> lng, address |-> <<>>, city |-> <<>>,
                  county |-> <<>>, postcode |-> postcode],
    contact |-> [phone |-> phone, email |-> email, website |-> website],
    offerings |-> <<>> ]

\* (name, postcode) pairs: the first two share a key, the first and the third
\* share a lowercased name.
DedupeIdentities ==
  { <<<<"a">>, <<"p">>>>, <<<<" ", "A">>, <<"P", " ">>>>, <<<<"A">>, <<"q">>>> }

\* (lat, lng): absent, latitude only, latitude 0.0, both non-zero.
DedupeCoords ==
  { <<None, None>>, <<Some(1), None>>, <<Some(0), Some(7)>>, <<Some(1), Some(7)>> }

\* (website present, email present)
DedupeContacts == { <<FALSE, FALSE>>, <<TRUE, FALSE>> }

DedupeProfiles == DedupeIdentities \X DedupeCoords \X DedupeContacts

\* A present contact field holds a value that names its record.
ShopFromProfile(i, p) ==
  MkShop(i, p[1][1], p[1][2], p[2][1], p[2][2],
         IF p[3][1] THEN Some(<<"w", i>>) ELSE None,
         IF p[3][2] THEN Some(<<"e", i>>) ELSE None,
         None)

ShopsFromProfiles(f) == [i \in 1..Len(f) |-> ShopFromProfile(i, f[i])]


(***************************************************************************)
(* utils_geo.py: slugify and geohash (thin wrappers of library calls).     *)
(***************************************************************************)
IsAlnum(c) == c \notin {" ", "!", "-"}

\* python-slugify on ASCII text: lowercase, every run of characters that are
\* not letters or digits becomes one hyphen, no hyphen at either end.
RECURSIVE SlugRuns(_, _, _)
SlugRuns(s, i, acc) ==
  IF i > Len(s) THEN acc
  ELSE IF ~IsAlnum(s[i]) THEN SlugRuns(s, i + 1, acc)
  ELSE IF acc # <<>> /\ i > 1 /\ ~IsAlnum(s[i - 1])
       THEN SlugRuns(s, i + 1, acc \o <<"-", s[i]>>)
       ELSE SlugRuns(s, i + 1, Append(acc, s[i]))

slugify(s) == SlugRuns(Lower(s), 1, <<>>)

\* pygeohash.encode(lat, lng, 7): a function of the coordinate pair.
geohash(lat, lng) == <<"gh", lat, lng>>

(***************************************************************************)
(* shops_pipeline.py: load_seeds, normalize_whitespace, map_to_shops.      *)
(***************************************************************************)
SeedsFiles == {"missing", "empty", "no_sources", "one_source"}

\* A mutant of load_seeds: a missing file reads as an empty mapping.
load_seeds_lenient(file) ==
  [raised |-> FALSE, value |-> IF file = "one_source" THEN 1 ELSE 0]

\* lines 29-33: SystemExit for a missing file; else the mapping, {} for an
\* empty file.  The mapping is kept as its number of sources.
load_seeds(file) ==
  IF file = "missing" THEN [raised |-> TRUE, value |-> 0]
  ELSE [raised |-> FALSE, value |-> IF file = "one_source" THEN 1 ELSE 0]

\* lines 102-106: the seeds are not read
crawl_sources(sd) == <<>>

\* lines 59-60
normalize_whitespace(s) == JoinSplit(s, 1, <<>>)

FarmShopDefault == <<"F", "a", "r", "m", " ", "s", "h", "o", "p">>

\* a reading of line 116 that lets the county come before the postcode
disambiguator_county_first(pc0, county) ==
  IF county # <<>> THEN county
  ELSE IF pc0 # <<>> THEN pc0 ELSE <<"u", "k">>

\* line 116: pc or county or 'uk'
disambiguator(pc0, county) ==
  IF pc0 # <<>> THEN pc0
  ELSE IF county # <<>> THEN county ELSE <<"u", "k">>

\* lines 111-122 for one candidate; `id` stands for the value _rand_id draws
\* for this record (models.py line 30), distinct from record to record.
map_one(it, id) ==
  LET name == IF normalize_whitespace(it.name) # <<>>
              THEN normalize_whitespace(it.name) ELSE FarmShopDefault
      addr == normalize_whitespace(it.address)
      county == normalize_whitespace(it.county)
      pc0 == Upper(normalize_whitespace(it.postcode))
      tail == disambiguator(pc0, county)
      keep(v) == IF TruthyStr(v) THEN v ELSE None
  IN  [ id |-> id, name |-> name, slug |-> slugify(name \o <<"-">> \o tail),
        location |-> [lat |-> None, lng |-> None, address |-> addr,
                      city |-> <<>>, county |-> county, postcode |-> pc0],
        contact |-> [phone |-> keep(it.contact.phone),
                     email |-> keep(it.contact.email),
                     website |-> keep(it.contact.website)],
        offerings |-> <<>> ]

\* lines 108-124
map_to_shops(r) == [i \in 1..Len(r) |-> map_one(r[i], i)]

(***************************************************************************)
(* shops_pipeline.py: geocode_missing, one record.                         *)
(***************************************************************************)
\* line 44
HasBoth(s) == s.location.lat # None /\ s.location.lng # None

\* a reading of line 44 that tests the coordinates for truth
skip_geocode_truthy(s) ==
  TruthyNum(s.location.lat) /\ TruthyNum(s.location.lng)

\* lines 44-45: the record is passed over with `continue`
skip_geocode(s) == HasBoth(s)

\* a reading that puts line 57 inside the try block
after_answer_in_try(kind, i) ==
  IF kind = "error" THEN [pc |-> "geocode", gi |-> i + 1]
                    ELSE [pc |-> "geo_sleep", gi |-> i]

\* lines 55-57: the sleep follows the try statement, so it is reached from
\* the end of the try block and from the except clause alike
after_answer(kind, i) == [pc |-> "geo_sleep", gi |-> i]

\* What one geocoding call can end as:
\*   error  - an exception before any assignment (the request fails,
\*            resp.json() fails, data[0] has no usable "lat");
\*   empty  - the answer is not a non-empty list (zero results);
\*   no_lon - data[0] has a "lat" and no usable "lon";
\*   ok     - data[0] has both.
GeoAnswers ==
  { [kind |-> "error", lat |-> 0, lon |-> 0], [kind |-> "empty", lat |-> 0, lon |-> 0],
    [kind |-> "no_lon", lat |-> 1, lon |-> 0],
    [kind |-> "ok", lat |-> 0, lon |-> 7], [kind |-> "ok", lat |-> 1, lon |-> 7] }

\* a geocoder that also takes the address of the match
geocode_one_address(s, a) ==
  CASE a.kind = "ok" ->
         [s EXCEPT !.location.lat = Some(a.lat), !.location.lng = Some(a.lon),
                   !.location.address = <<"h">>]
    [] a.kind = "no_lon" -> [s EXCEPT !.location.lat = Some(a.lat)]
    [] OTHER -> s

\* lines 49-56: line 53 runs before line 54 can raise
geocode_one(s, a) ==
  CASE a.kind = "ok" ->
         [s EXCEPT !.location.lat = Some(a.lat), !.location.lng = Some(a.lon)]
    [] a.kind = "no_lon" -> [s EXCEPT !.location.lat = Some(a.lat)]
    [] OTHER -> s

(***************************************************************************)
(* shops_pipeline.py: to_geojson and the validation loop of main.          *)
(***************************************************************************)
Feature(s) ==
  [ coordinates |-> <<s.location.lng[1], s.location.lat[1]>>,
    id |-> s.id, name |-> s.name, slug |-> s.slug,
    address |-> s.location.address, county |-> s.location.county,
    postcode |-> s.location.postcode, website |-> s.contact.website,
    geohash |-> geohash(s.location.lat[1], s.location.lng[1]) ]

\* A mutant of to_geojson: the coordinates are tested by truthiness.
to_geojson_truthy(list) ==
  LET kept == SelectSeq(list, LAMBDA s :
                TruthyNum(s.location.lat) /\ TruthyNum(s.location.lng))
  IN  [i \in 1..Len(kept) |-> Feature(kept[i])]

\* a to_geojson that puts each feature before the ones it has
to_geojson_prepend(list) ==
  LET kept == SelectSeq(list, LAMBDA s : HasBoth(s))
  IN  [i \in 1..Len(kept) |-> Feature(kept[Len(kept) + 1 - i])]

\* lines 159-178: the features, in order
to_geojson(list) ==
  LET kept == SelectSeq(list, LAMBDA s : HasBoth(s))
  IN  [i \in 1..Len(kept) |-> Feature(kept[i])]

\* A mutant of model_dump: only geolocated records are dumped.
model_dump_located(list) == SelectSeq(list, LAMBDA s : HasBoth(s))

\* line 196: model_dump keeps every field
model_dump(list) == list

RemoveAt(seq, i) == [j \in 1..(Len(seq) - 1) |-> IF j < i THEN seq[j] ELSE seq[j + 1]]

\* A mutant of validate_item: a record that fails validation is taken out.
validate_item_filter(st, outcome) ==
  IF outcome = "valid"
  THEN [data |-> st.data, ok |-> st.ok + 1, i |-> st.i + 1]
  ELSE [data |-> RemoveAt(st.data, st.i), ok |-> st.ok, i |-> st.i]

\* A mutant of validate_item: every record examined is counted.
validate_item_count_all(st, outcome) ==
  [data |-> st.data, ok |-> st.ok + 1, i |-> st.i + 1]

\* lines 199-204: one iteration; validate() returns or raises, and every
\* Exception is caught
validate_item(st, outcome) ==
  [data |-> st.data, ok |-> IF outcome = "valid" THEN st.ok + 1 ELSE st.ok,
   i |-> st.i + 1]

(***************************************************************************)
(* Candidate records main() is run on.                                     *)
(***************************************************************************)
\* (name, postcode) as extracted: the first two normalise to one key, all
\* three to one lowercased name.
CandIdentities ==
  { <<<<"a">>, <<"p">>>>, <<<<" ", "A">>, <<"p", " ">>>>, <<<<"a">>, <<"q">>>> }

CandProfiles == CandIdentities \X {FALSE, TRUE}

CandFromProfile(i, p) ==
  [ name |-> p[1][1], address |-> <<>>, county |-> <<>>, postcode |-> p[1][2],
    contact |-> [phone |-> None, email |-> None,
                 website |-> IF p[2] THEN Some(<<"w", i>>) ELSE None] ]

CandsFromProfiles(f) == [i \in 1..Len(f) |-> CandFromProfile(i, f[i])]

(***************************************************************************)
(* Initial states.                                                         *)
(***************************************************************************)
Idle ==
  /\ deduped = <<>> /\ returned = <<>>
  /\ gi = 1 /\ geoLog = <<>> /\ schema = "none"
  /\ data = <<>> /\ ok = 0 /\ vi = 1 /\ vlog = <<>>
  /\ jsonOut = None /\ geoOut = None /\ exit = None
  /\ given = <<>> /\ events = <<>> /\ si = 1 /\ again = <<>> /\ draws = <<>>
  /\ nodes = <<>>

\* python src/shops_pipeline.py
InitMain ==
  /\ mode = "main" /\ pc = "load_seeds"
  /\ seedsFile \in SeedsFiles /\ seeds = None
  /\ raw = <<>> /\ shops = <<>>
  /\ Idle

\* main() at line 184, with the list a crawl of configured sources hands it
InitStages ==
  /\ mode = "stages" /\ pc = "map"
  /\ seedsFile = "one_source" /\ seeds = Some(1)
  /\ shops = <<>>
  /\ Idle
  /\ \E n \in 1..MaxRaw : \E f \in [1..n -> CandProfiles] :
       raw = CandsFromProfiles(f)

Init == InitMain \/ InitStages

(***************************************************************************)
(* main(), statement by statement.                                        *)
(***************************************************************************)
\* An exception that leaves main(): asyncio.run re-raises it and only
\* KeyboardInterrupt is caught at lines 217-220, so the process exits 1.
Abort ==
  /\ pc' = "done"
  /\ exit' = Some(1)

\* line 181
LoadSeeds ==
  /\ pc = "load_seeds"
  /\ LET r == load_seeds(seedsFile)
     IN  IF r.raised
         THEN Abort /\ UNCHANGED seeds
         ELSE seeds' = Some(r.value) /\ pc' = "crawl" /\ UNCHANGED exit
  /\ UNCHANGED <<auxVars, mode, seedsFile, raw, shops, deduped, returned, gi, geoLog,
                 schema, data, ok, vi, vlog, jsonOut, geoOut>>

\* line 182
CrawlSources ==
  /\ pc = "crawl"
  /\ raw' = crawl_sources(seeds)
  /\ pc' = "map"
  /\ UNCHANGED <<auxVars, mode, seedsFile, seeds, shops, deduped, returned, gi, geoLog,
                 schema, data, ok, vi, vlog, jsonOut, geoOut, exit>>

\* line 184
MapToShops ==
  /\ pc = "map"
  /\ shops' = map_to_shops(raw)
  /\ gi' = 1
  /\ IF mode = "map"
     THEN pc' = "mapped" /\ UNCHANGED given
     ELSE pc' = "geocode" /\ given' = shops'
  /\ UNCHANGED <<events, si, again, draws, nodes, mode, seedsFile, seeds, raw, deduped, returned, geoLog,
                 schema, data, ok, vi, vlog, jsonOut, geoOut, exit>>

\* a loop head that waits for the coordinates of the record instead of
\* asking for them
GeoCheckWaits ==
  /\ pc = "geocode"
  /\ gi <= Len(shops)
  /\ IF skip_geocode(shops[gi])
     THEN gi' = gi + 1
     ELSE gi' = gi
  /\ UNCHANGED <<auxVars, mode, pc, seedsFile, seeds, raw, shops, deduped, returned, geoLog,
                 schema, data, ok, vi, vlog, jsonOut, geoOut, exit>>

\* lines 43-48: the head of the loop of geocode_missing; a record with both
\* coordinates is passed over, for any other the request is sent
GeoCheck ==
  /\ pc = "geocode"
  /\ gi <= Len(shops)
  /\ IF skip_geocode(shops[gi])
     THEN gi' = gi + 1 /\ pc' = "geocode" /\ UNCHANGED events
     ELSE /\ gi' = gi /\ pc' = "geo_inflight"
          /\ events' = Append(events, [e |-> "call", i |-> gi])
  /\ UNCHANGED <<given, si, again, draws, nodes, mode, seedsFile, seeds, raw, shops, deduped, returned, geoLog,
                 schema, data, ok, vi, vlog, jsonOut, geoOut, exit>>

\* lines 50-56: the call ends
GeoRespond ==
  /\ pc = "geo_inflight"
  /\ \E a \in GeoAnswers :
       /\ shops' = [shops EXCEPT ![gi] = geocode_one(shops[gi], a)]
       /\ geoLog' = Append(geoLog, [i |-> gi, id |-> shops[gi].id, kind |-> a.kind])
       /\ events' = Append(events, [e |-> "answer", i |-> gi])
       /\ pc' = after_answer(a.kind, gi).pc
       /\ gi' = after_answer(a.kind, gi).gi
  /\ UNCHANGED <<given, si, again, draws, nodes, mode, seedsFile, seeds, raw, deduped, returned,
                 schema, data, ok, vi, vlog, jsonOut, geoOut, exit>>

\* line 57
GeoSleep ==
  /\ pc = "geo_sleep"
  /\ events' = Append(events, [e |-> "sleep", i |-> gi])
  /\ gi' = gi + 1
  /\ pc' = "geocode"
  /\ UNCHANGED <<given, si, again, draws, nodes, mode, seedsFile, seeds, raw, shops, deduped, returned, geoLog,
                 schema, data, ok, vi, vlog, jsonOut, geoOut, exit>>

\* a geocode_missing that returns while records are still to be looked at
GeoDoneEarly ==
  /\ pc = "geocode"
  /\ pc' = IF mode = "geocode" THEN "geo_returned" ELSE "dedupe1"
  /\ UNCHANGED <<auxVars, mode, seedsFile, seeds, raw, shops, deduped, returned, gi, geoLog,
                 schema, data, ok, vi, vlog, jsonOut, geoOut, exit>>

\* line 188 returns
GeoDone ==
  /\ pc = "geocode"
  /\ gi > Len(shops)
  /\ pc' = IF mode = "geocode" THEN "geo_returned" ELSE "dedupe1"
  /\ UNCHANGED <<auxVars, mode, seedsFile, seeds, raw, shops, deduped, returned, gi, geoLog,
                 schema, data, ok, vi, vlog, jsonOut, geoOut, exit>>

\* lines 128-139
DedupePhase1 ==
  /\ pc = "dedupe1"
  /\ deduped' = Phase1(shops)
  /\ pc' = "dedupe2"
  /\ UNCHANGED <<auxVars, mode, shops, returned, pipeVars>>

\* lines 142-157, and line 191 in a run of main
DedupePhase2 ==
  /\ pc = "dedupe2"
  /\ returned' = Phase2(deduped)
  /\ IF mode \in {"dedupe", "permute"}
     THEN pc' = "returned" /\ UNCHANGED shops
     ELSE pc' = "fetch_schema" /\ shops' = returned'
  /\ UNCHANGED <<auxVars, mode, deduped, pipeVars>>

\* lines 195-198: the schema arrives
FetchSchemaOk ==
  /\ pc = "fetch_schema"
  /\ schema' = "fetched"
  /\ data' = model_dump(shops)
  /\ ok' = 0
  /\ vi' = 1
  /\ pc' = "validate"
  /\ UNCHANGED <<auxVars, mode, seedsFile, seeds, raw, shops, deduped, returned, gi, geoLog,
                 vlog, jsonOut, geoOut, exit>>

\* lines 36-39: the request, raise_for_status() or r.json() raises
FetchSchemaFail ==
  /\ pc = "fetch_schema"
  /\ schema' = "failed"
  /\ Abort
  /\ UNCHANGED <<auxVars, mode, seedsFile, seeds, raw, shops, deduped, returned, gi, geoLog,
                 data, ok, vi, vlog, jsonOut, geoOut>>

\* lines 199-204
ValidateItem ==
  /\ pc = "validate"
  /\ vi <= Len(data)
  /\ \E outcome \in {"valid", "invalid"} :
       LET st == validate_item([data |-> data, ok |-> ok, i |-> vi], outcome)
       IN  /\ data' = st.data
           /\ ok' = st.ok
           /\ vi' = st.i
           /\ vlog' = Append(vlog, outcome)
  /\ UNCHANGED <<auxVars, mode, pc, seedsFile, seeds, raw, shops, deduped, returned, gi,
                 geoLog, schema, jsonOut, geoOut, exit>>

\* line 205
ValidateDone ==
  /\ pc = "validate"
  /\ vi > Len(data)
  /\ pc' = "write_json"
  /\ UNCHANGED <<auxVars, mode, seedsFile, seeds, raw, shops, deduped, returned, gi, geoLog,
                 schema, data, ok, vi, vlog, jsonOut, geoOut, exit>>

\* lines 210-211
WriteJson ==
  /\ pc = "write_json"
  /\ jsonOut' = Some(data)
  /\ pc' = "write_geo"
  /\ UNCHANGED <<auxVars, mode, seedsFile, seeds, raw, shops, deduped, returned, gi, geoLog,
                 schema, data, ok, vi, vlog, geoOut, exit>>

\* lines 212-214, and the process ends
WriteGeo ==
  /\ pc = "write_geo"
  /\ geoOut' = Some(to_geojson(shops))
  /\ pc' = "done"
  /\ exit' = Some(0)
  /\ UNCHANGED <<auxVars, mode, seedsFile, seeds, raw, shops, deduped, returned, gi, geoLog,
                 schema, data, ok, vi, vlog, jsonOut>>

Next ==
  \/ LoadSeeds \/ CrawlSources \/ MapToShops
  \/ GeoCheck \/ GeoRespond \/ GeoSleep \/ GeoDone
  \/ DedupePhase1 \/ DedupePhase2
  \/ FetchSchemaOk \/ FetchSchemaFail
  \/ ValidateItem \/ ValidateDone
  \/ WriteJson \/ WriteGeo

Spec == Init /\ [][Next]_vars

\* two candidates of one name: without a website, and with another postcode
\* and a website
LiveProfiles == { <<<<<<"a">>, <<"p">>>>, FALSE>>, <<<<<<"a">>, <<"q">>>>, TRUE>> }

InitStagesLive ==
  /\ mode = "stages" /\ pc = "map"
  /\ seedsFile = "one_source" /\ seeds = Some(1)
  /\ shops = <<>>
  /\ Idle
  /\ \E n \in 1..MaxRaw : \E f \in [1..n -> LiveProfiles] :
       raw = CandsFromProfiles(f)

\* main under a scheduler that runs the coroutine whenever it can go on, with
\* external calls that return or fail: every await of lines 50, 57 and 37
\* ends, so a step that is possible is eventually taken
SpecLive == (InitMain \/ InitStagesLive) /\ [][Next]_vars /\ WF_vars(Next)

(***************************************************************************)
(* dedupe_shops applied to a drawn list.                                   *)
(***************************************************************************)
InitDedupe ==
  /\ mode = "dedupe" /\ pc = "dedupe1"
  /\ seedsFile = "one_source" /\ seeds = None /\ raw = <<>>
  /\ Idle
  /\ \E n \in 0..MaxShops : \E f \in [1..n -> DedupeProfiles] :
       shops = ShopsFromProfiles(f)

NextDedupe == DedupePhase1 \/ DedupePhase2

SpecDedupe == InitDedupe /\ [][NextDedupe]_vars

(***************************************************************************)
(* dedupe_shops applied to a drawn list, its second pass one record at a   *)
(* time.                                                                   *)
(***************************************************************************)
\* (name, postcode): one lowercased name, three keys
ScanIdentities ==
  { <<<<"a">>, <<"p">>>>, <<<<"A">>, <<"q">>>>, <<<<"a">>, <<"r">>>> }

\* (lat, lng) on one meridian: 1 and 2 are 111 m apart, 2 and 4 are 222 m
\* apart, 1 and 4 are 333 m apart
ScanCoords ==
  { <<Some(1), Some(7)>>, <<Some(2), Some(7)>>, <<Some(4), Some(7)>> }

\* (email present, phone present)
ScanContacts == { <<TRUE, FALSE>>, <<FALSE, TRUE>> }

ScanProfiles == ScanIdentities \X ScanCoords \X ScanContacts

ScanShop(i, p) ==
  MkShop(i, p[1][1], p[1][2], p[2][1], p[2][2],
         None,
         IF p[3][1] THEN Some(<<"e", i>>) ELSE None,
         IF p[3][2] THEN Some(<<"t", i>>) ELSE None)

InitScan ==
  /\ mode = "scan" /\ pc = "dedupe1"
  /\ seedsFile = "one_source" /\ seeds = None /\ raw = <<>>
  /\ Idle
  /\ \E n \in 0..MaxShops : \E f \in [1..n -> ScanProfiles] :
       shops = [i \in 1..n |-> ScanShop(i, f[i])]

\* lines 142-143: deduped.sort(...) sorts in place; result = []
ScanSort ==
  /\ pc = "dedupe2"
  /\ deduped' = SortShops(deduped)
  /\ returned' = <<>>
  /\ si' = 1
  /\ pc' = "scan"
  /\ UNCHANGED <<mode, shops, pipeVars, given, events, again, draws, nodes>>

\* lines 144-156: one iteration of the loop over deduped
ScanStep ==
  /\ pc = "scan"
  /\ si <= Len(deduped)
  /\ returned' = Phase2Step(returned, deduped[si])
  /\ si' = si + 1
  /\ UNCHANGED <<mode, pc, shops, deduped, pipeVars, given, events, again, draws, nodes>>

\* line 157
ScanDone ==
  /\ pc = "scan"
  /\ si > Len(deduped)
  /\ pc' = "returned"
  /\ UNCHANGED <<mode, shops, deduped, returned, pipeVars, auxVars>>

\* dedupe_shops once more, on the list it returned
ScanAgain ==
  /\ pc = "returned"
  /\ again' = dedupe_shops(returned)
  /\ pc' = "redone"
  /\ UNCHANGED <<mode, shops, deduped, returned, pipeVars,
                 given, events, si, draws, nodes>>

NextScan == DedupePhase1 \/ ScanSort \/ ScanStep \/ ScanDone \/ ScanAgain

SpecScan == InitScan /\ [][NextScan]_vars

(***************************************************************************)
(* map_to_shops applied to a drawn list of candidates, and then to the     *)
(* candidate form of what it returned.                                     *)
(***************************************************************************)
\* names: empty, punctuation only, two words with stray whitespace
MapNames == { <<>>, <<"!">>, <<" ", "a", " ", " ", "B", " ">> }

\* postcodes: empty, punctuation only, lowercase
MapPostcodes == { <<>>, <<"!">>, <<"p">> }

\* counties: empty, punctuation only, a word
MapCounties == { <<>>, <<"-">>, <<"b">> }

\* (address, website, id, offerings): a candidate as the extractor builds
\* it, and one that comes with an address, a website, an id (0, which no
\* generated id equals) and offerings
MapExtras ==
  { <<<<>>, None, None, <<>>>>,
    <<<<"h">>, Some(<<"w">>), Some(0), <<"o">>>> }

MapProfiles == MapNames \X MapPostcodes \X MapCounties \X MapExtras

MapCand(p) ==
  [ name |-> p[1], address |-> p[4][1], county |-> p[3], postcode |-> p[2],
    contact |-> [phone |-> None, email |-> None, website |-> p[4][2]],
    id |-> p[4][3], offerings |-> p[4][4] ]

\* the fields of a FarmShop a candidate record has
candidate_form(s) ==
  [ name |-> s.name, address |-> s.location.address,
    county |-> s.location.county, postcode |-> s.location.postcode,
    contact |-> s.contact ]

InitMap ==
  /\ mode = "map" /\ pc = "map"
  /\ seedsFile = "one_source" /\ seeds = None
  /\ shops = <<>>
  /\ Idle
  /\ \E n \in 1..MaxRaw : \E f \in [1..n -> MapProfiles] :
       raw = [i \in 1..n |-> MapCand(f[i])]

\* map_to_shops once more; the ids it draws are new ones
MapAgain ==
  /\ pc = "mapped"
  /\ again' = [i \in 1..Len(shops) |->
                 [map_to_shops([k \in 1..Len(shops) |-> candidate_form(shops[k])])[i]
                    EXCEPT !.id = Len(shops) + i]]
  /\ pc' = "remapped"
  /\ UNCHANGED <<mode, shops, deduped, returned, pipeVars, given, events, si, draws, nodes>>

NextMap == MapToShops \/ MapAgain

SpecMap == InitMap /\ [][NextMap]_vars

(***************************************************************************)
(* models.py: _rand_id, called when a FarmShop is built without an id.     *)
(***************************************************************************)
\* line 8
alphabet ==
  << "a", "b", "c", "d", "e", "f", "g", "h", "i", "j", "k", "l", "m",
     "n", "o", "p", "q", "r", "s", "t", "u", "v", "w", "x", "y", "z",
     "0", "1", "2", "3", "4", "5", "6", "7", "8", "9" >>

\* line 9: range(10)
IdLen == 10

\* the positions of the alphabet random.choice is let to return here: the
\* first letter, the last letter, the last digit
ChoicePositions == {1, 26, Len(alphabet)}

\* an id that is upper-cased on the way out
rand_id_upper(d) == <<"f", "a", "r", "m", "_">> \o Upper(d)

\* line 9: 'farm_' + ''.join(...)
rand_id(d) == <<"f", "a", "r", "m", "_">> \o d

InitRandId ==
  /\ mode = "rand_id" /\ pc = "rand_id"
  /\ seedsFile = "one_source" /\ seeds = None /\ raw = <<>>
  /\ shops = <<>>
  /\ Idle

\* line 9: one random.choice(alphabet)
RandChoice ==
  /\ pc = "rand_id"
  /\ Len(draws) < IdLen
  /\ \E k \in ChoicePositions : draws' = Append(draws, alphabet[k])
  /\ UNCHANGED <<mode, pc, shops, deduped, returned, pipeVars,
                 given, events, si, again, nodes>>

\* line 9 returns and the FarmShop is built with that id (line 30)
RandReturn ==
  /\ pc = "rand_id"
  /\ Len(draws) = IdLen
  /\ shops' = <<MkShop(rand_id(draws), <<"a">>, <<"p">>, None, None, None, None, None)>>
  /\ pc' = "constructed"
  /\ UNCHANGED <<mode, deduped, returned, pipeVars, auxVars>>

NextRandId == RandChoice \/ RandReturn

SpecRandId == InitRandId /\ [][NextRandId]_vars

(***************************************************************************)
(* shops_pipeline.py: parse_items_from_html.  A node is kept as the texts  *)
(* of its hinted elements (name, addr, pc), the text it has besides them   *)
(* (rest), in that document order, and the href of its link.               *)
(***************************************************************************)
IsLetter(c) == \E k \in 1..26 : alphabet[k] = LowerCh(c)

IsDigit(c) == \E k \in 27..Len(alphabet) : alphabet[k] = c

\* line 27, NAME_RE.search: a letter or digit followed by at least one
\* character of [A-Za-z0-9 '&.-]
NAME_RE_search(t) ==
  \E i \in 1..(Len(t) - 1) :
    /\ IsLetter(t[i]) \/ IsDigit(t[i])
    /\ \/ IsLetter(t[i + 1]) \/ IsDigit(t[i + 1])
       \/ t[i + 1] \in {" ", "'", "&", ".", "-"}

\* the number of whitespace characters of t from position k on
RECURSIVE SpaceRun(_, _)
SpaceRun(t, k) ==
  IF k <= Len(t) /\ t[k] = " " THEN 1 + SpaceRun(t, k + 1) ELSE 0

\* line 28, PC_RE matched at position i with a letters and b optional
\* characters; \s* takes the whole run of whitespace, a digit follows it
PcMatches(t, i, a, b) ==
  LET d1 == i + a
      d2 == d1 + 1 + b + SpaceRun(t, d1 + 1 + b)
  IN  /\ d2 + 2 <= Len(t)
      /\ \A k \in i..(d1 - 1) : IsLetter(t[k])
      /\ IsDigit(t[d1])
      /\ b = 1 => IsLetter(t[d1 + 1]) \/ IsDigit(t[d1 + 1])
      /\ IsDigit(t[d2])
      /\ IsLetter(t[d2 + 1]) /\ IsLetter(t[d2 + 2])

PcShapes(t, i) ==
  { x \in {1, 2} \X {0, 1} : PcMatches(t, i, x[1], x[2]) }

\* line 81, PC_RE.search(t).group(0), "" when there is no match: the
\* leftmost match, each quantifier taking as much as it can
PC_RE_search(t) ==
  LET starts == {j \in 1..Len(t) : PcShapes(t, j) # {}}
  IN  IF starts = {}
      THEN <<>>
      ELSE LET i == CHOOSE j \in starts : \A h \in starts : j <= h
               shapes == PcShapes(t, i)
               rank(x) == x[1] * 2 + x[2]
               x == CHOOSE y \in shapes : \A z \in shapes : rank(z) <= rank(y)
               d2 == i + x[1] + 1 + x[2] + SpaceRun(t, i + x[1] + 1 + x[2])
           IN  SubSeq(t, i, d2 + 2)

RECURSIVE LStrip(_)
LStrip(t) == IF t # <<>> /\ t[1] = " " THEN LStrip(Tail(t)) ELSE t

RECURSIVE RStrip(_)
RStrip(t) ==
  IF t # <<>> /\ t[Len(t)] = " " THEN RStrip(SubSeq(t, 1, Len(t) - 1)) ELSE t

\* str.strip()
Strip(t) == RStrip(LStrip(t))

\* n.get_text(" ", strip=True): the stripped texts of the node, joined
RECURSIVE JoinTexts(_)
JoinTexts(ts) ==
  IF ts = <<>> THEN <<>>
  ELSE LET first == Strip(ts[1])
           rest == JoinTexts(Tail(ts))
       IN  IF first = <<>> THEN rest
           ELSE IF rest = <<>> THEN first
           ELSE first \o <<" ">> \o rest

\* s.split("//")[-1]
RECURSIVE SplitLast(_, _, _)
SplitLast(t, i, start) ==
  IF i > Len(t) THEN SubSeq(t, start, Len(t))
  ELSE IF i < Len(t) /\ t[i] = "/" /\ t[i + 1] = "/"
       THEN SplitLast(t, i + 2, i + 2)
       ELSE SplitLast(t, i + 1, start)

\* a discard rule that wants both a name and a postcode
discard_item_either(name, pc0) == ~NAME_RE_search(name) \/ pc0 = <<>>

\* line 91
discard_item(name, pc0) == ~NAME_RE_search(name) /\ pc0 = <<>>

\* lines 74-81: the postcode of a node
node_pc(n) ==
  IF normalize_whitespace(n.pc) # <<>> THEN normalize_whitespace(n.pc)
  ELSE PC_RE_search(JoinTexts(<<n.name, n.addr, n.pc, n.rest>>))

\* lines 93-99
node_item(n) ==
  LET name == normalize_whitespace(n.name)
      website == IF n.href = None THEN <<>> ELSE n.href[1]
  IN  [ name |-> IF name # <<>> THEN name
                 ELSE SplitLast(IF website # <<>> THEN website ELSE FarmShopDefault,
                                1, 1),
        address |-> normalize_whitespace(n.addr),
        county |-> <<>>,
        postcode |-> Upper(node_pc(n)),
        contact |-> [phone |-> None, email |-> None,
                     website |-> IF website # <<>> THEN Some(website) ELSE None] ]

\* lines 72-100
RECURSIVE parse_items_from_html(_)
parse_items_from_html(ns) ==
  IF ns = <<>> THEN <<>>
  ELSE IF discard_item(normalize_whitespace(ns[1].name), node_pc(ns[1]))
       THEN parse_items_from_html(Tail(ns))
       ELSE <<node_item(ns[1])>> \o parse_items_from_html(Tail(ns))

\* names: none, punctuation, one letter, a word
NodeNames == { <<>>, <<"!">>, <<"A">>, <<"a", "b">> }

\* text of the hinted postcode element: none, some text
NodePcs == { <<>>, <<"p">> }

\* text outside the hinted elements: none, a UK postcode, part of one
NodeRests == { <<>>, <<"B", "1", " ", "2", "a", "b">>, <<"B", "1">> }

NodeHrefs == { None, Some(<<"h", "/", "/", "w">>) }

\* a link is drawn for the nodes without a name and for those with a word
NodeProfiles ==
  { p \in NodeNames \X NodePcs \X NodeRests \X NodeHrefs :
      p[4] = None \/ p[1] \in {<<>>, <<"a", "b">>} }

\* the i-th node of the page; its address text is i characters long
NodeFromProfile(i, p) ==
  [ name |-> p[1], addr |-> [k \in 1..i |-> "h"], pc |-> p[2],
    rest |-> p[3], href |-> p[4] ]

InitParse ==
  /\ mode = "parse" /\ pc = "parse"
  /\ seedsFile = "one_source" /\ seeds = Some(1)
  /\ raw = <<>> /\ shops = <<>>
  /\ deduped = <<>> /\ returned = <<>>
  /\ gi = 1 /\ geoLog = <<>> /\ schema = "none"
  /\ data = <<>> /\ ok = 0 /\ vi = 1 /\ vlog = <<>>
  /\ jsonOut = None /\ geoOut = None /\ exit = None
  /\ given = <<>> /\ events = <<>> /\ si = 1 /\ again = <<>> /\ draws = <<>>
  /\ \E n \in 0..MaxRaw : \E f \in [1..n -> NodeProfiles] :
       nodes = [i \in 1..n |-> NodeFromProfile(i, f[i])]

\* lines 62-100
ParseItems ==
  /\ pc = "parse"
  /\ raw' = parse_items_from_html(nodes)
  /\ pc' = "parsed"
  /\ UNCHANGED <<auxVars, mode, seedsFile, seeds, shops, deduped, returned, gi, geoLog,
                 schema, data, ok, vi, vlog, jsonOut, geoOut, exit>>

NextParse == ParseItems

SpecParse == InitParse /\ [][NextParse]_vars

(***************************************************************************)
(* dedupe_shops applied to a drawn list and to a permutation of it.        *)
(***************************************************************************)
\* (name, postcode): one lowercased name, two keys
PermIdentities == { <<<<"a">>, <<"p">>>>, <<<<"A">>, <<"q">>>> }

\* (lat, lng): absent, present
PermCoords == { <<None, None>>, <<Some(1), Some(7)>> }

\* email present
PermContacts == {FALSE, TRUE}

PermProfiles == PermIdentities \X PermCoords \X PermContacts

PermShop(i, p) ==
  MkShop(i, p[1][1], p[1][2], p[2][1], p[2][2],
         None, IF p[3] THEN Some(<<"e", i>>) ELSE None, None)

\* the orders a list of n records can come in
Orders(n) == {f \in [1..n -> 1..n] : \A i, j \in 1..n : f[i] = f[j] => i = j}

InitPermute ==
  /\ mode = "permute" /\ pc = "dedupe1"
  /\ seedsFile = "one_source" /\ seeds = None /\ raw = <<>>
  /\ deduped = <<>> /\ returned = <<>>
  /\ gi = 1 /\ geoLog = <<>> /\ schema = "none"
  /\ data = <<>> /\ ok = 0 /\ vi = 1 /\ vlog = <<>>
  /\ jsonOut = None /\ geoOut = None /\ exit = None
  /\ events = <<>> /\ si = 1 /\ again = <<>> /\ draws = <<>> /\ nodes = <<>>
  /\ \E n \in 0..MaxShops : \E f \in [1..n -> PermProfiles] : \E o \in Orders(n) :
       /\ shops = [i \in 1..n |-> PermShop(i, f[i])]
       /\ given = [i \in 1..n |-> PermShop(o[i], f[o[i]])]

\* dedupe_shops on the second list
DedupeSecond ==
  /\ pc = "returned"
  /\ again' = dedupe_shops(given)
  /\ pc' = "redone"
  /\ UNCHANGED <<mode, shops, deduped, returned, pipeVars,
                 given, events, si, draws, nodes>>

NextPermute == DedupePhase1 \/ DedupePhase2 \/ DedupeSecond

SpecPermute == InitPermute /\ [][NextPermute]_vars

(***************************************************************************)
(* geocode_missing applied to a drawn list.                                *)
(***************************************************************************)
\* the coordinates a record can arrive with: none, one, both (one of them 0)
GeoProfiles == DedupeCoords

GeoShop(i, c) == MkShop(i, <<"a">>, <<"p">>, c[1], c[2], None, None, None)

InitGeocode ==
  /\ mode = "geocode" /\ pc = "geocode"
  /\ seedsFile = "one_source" /\ seeds = None /\ raw = <<>>
  /\ deduped = <<>> /\ returned = <<>>
  /\ gi = 1 /\ geoLog = <<>> /\ schema = "none"
  /\ data = <<>> /\ ok = 0 /\ vi = 1 /\ vlog = <<>>
  /\ jsonOut = None /\ geoOut = None /\ exit = None
  /\ events = <<>> /\ si = 1 /\ again = <<>> /\ draws = <<>> /\ nodes = <<>>
  /\ \E n \in 0..MaxShops : \E f \in [1..n -> GeoProfiles] :
       shops = [i \in 1..n |-> GeoShop(i, f[i])]
  /\ given = shops

NextGeocode == GeoCheck \/ GeoRespond \/ GeoSleep \/ GeoDone

SpecGeocode == InitGeocode /\ [][NextGeocode]_vars

(***************************************************************************)
(* Properties.                                                             *)
(***************************************************************************)
Ids(list) == {list[i].id : i \in 1..Len(list)}

DistinctKeys(list) ==
  \A i, j \in 1..Len(list) :
    i # j => key_name_postcode(list[i]) # key_name_postcode(list[j])

\* C1: after phase 1 of dedupe_shops, and in the list it returns, no two
\* records have the same normalized (name, postcode) key.
C1_KeyUniqueAfterPhase1 ==
  /\ pc \in {"dedupe2", "returned"} => DistinctKeys(deduped)
  /\ pc = "returned" => DistinctKeys(returned)

\* C1 witness: three records in two key groups went through phase 1.
C1_Witness ==
  /\ pc = "dedupe2"
  /\ Len(shops) = 3
  /\ Len(deduped) = 2
  /\ key_name_postcode(shops[1]) = key_name_postcode(shops[3])

\* The distance test of the claim: both coordinates present, whatever their
\* values, and less than 0.25 km apart.
PresentAndNear(a, b) ==
  /\ HasBoth(a) /\ HasBoth(b)
  /\ haversine_m2(a.location.lat[1], a.location.lng[1],
                  b.location.lat[1], b.location.lng[1])
       < ThresholdMetres * ThresholdMetres

\* C2: of two records entering phase 2 with case-insensitively equal names
\* and coordinates present less than 0.25 km apart, at most one is returned.
C2_ProximityExclusive ==
  pc = "returned" =>
    \A i, j \in 1..Len(deduped) :
      ( /\ i # j
        /\ Lower(deduped[i].name) = Lower(deduped[j].name)
        /\ PresentAndNear(deduped[i], deduped[j]) )
      => ~(deduped[i].id \in Ids(returned) /\ deduped[j].id \in Ids(returned))

\* The richness score of the claim: has_coordinates is 1 exactly for a
\* record with both lat and lng present.
Richness(x) ==
  B2I(HasBoth(x)) + B2I(TruthyStr(x.contact.website))
    + B2I(TruthyStr(x.contact.email))

\* The first record of the group of key k with the greatest richness.
RichestFirst(list, k) ==
  LET group == {i \in 1..Len(list) : key_name_postcode(list[i]) = k}
      best == {i \in group : \A j \in group : Richness(list[j]) <= Richness(list[i])}
  IN  list[CHOOSE i \in best : \A j \in best : i <= j]

\* C3: the survivor of every key group of phase 1 is the first-seen record
\* among those of the group with the greatest richness.
C3_RichestFirstSeenSurvives ==
  pc = "dedupe2" =>
    \A n \in 1..Len(deduped) :
      deduped[n] = RichestFirst(shops, key_name_postcode(deduped[n]))

Located(list) == {i \in 1..Len(list) : HasBoth(list[i])}

\* C4: the features are never more than the records of the flat list, are as
\* many as its records with both coordinates, and each is such a record.
C4_GeoFeatureCount ==
  geoOut # None =>
    /\ jsonOut # None
    /\ Len(geoOut[1]) <= Len(jsonOut[1])
    /\ Len(geoOut[1]) = Cardinality(Located(jsonOut[1]))
    /\ \A n \in 1..Len(geoOut[1]) :
         \E i \in Located(jsonOut[1]) : jsonOut[1][i].id = geoOut[1][n].id

\* C4 witness: two records written, one of them geolocated.
C4_Witness ==
  /\ pc = "done"
  /\ geoOut # None
  /\ Len(jsonOut[1]) = 2
  /\ Len(geoOut[1]) = 1

HasFeature(id) == \E n \in 1..Len(geoOut[1]) : geoOut[1][n].id = id

\* The flat list holds every record dedupe_shops returned.
FlatListComplete ==
  \A i \in 1..Len(returned) : \E j \in 1..Len(jsonOut[1]) : jsonOut[1][j] = returned[i]

\* The record of identifier id is in the flat list, without coordinates, and
\* has no feature.
UnlocatedInFlatList(id) ==
  /\ \E j \in 1..Len(jsonOut[1]) :
       /\ jsonOut[1][j].id = id
       /\ jsonOut[1][j].location.lat = None
       /\ jsonOut[1][j].location.lng = None
  /\ ~HasFeature(id)

\* C5 as stated: the flat list holds every record dedupe_shops returned, and
\* every record whose geocoding call returned zero results is in the flat
\* list without coordinates and has no feature.
C5_ZeroResultRecordInFlatList ==
  (pc = "done" /\ exit = Some(0)) =>
    /\ FlatListComplete
    /\ \A n \in 1..Len(geoLog) :
         geoLog[n].kind = "empty" => UnlocatedInFlatList(geoLog[n].id)

\* C5 amended: the same, for the records with zero results that
\* dedupe_shops returned.
C5_ZeroResultSurvivorInFlatList ==
  (pc = "done" /\ exit = Some(0)) =>
    /\ FlatListComplete
    /\ \A n \in 1..Len(geoLog) :
         (geoLog[n].kind = "empty" /\ geoLog[n].id \in Ids(returned))
         => UnlocatedInFlatList(geoLog[n].id)

\* C5 witness: a record with zero results was written beside a geolocated one.
C5_Witness ==
  /\ pc = "done" /\ exit = Some(0)
  /\ Len(geoOut[1]) = 1
  /\ \E n \in 1..Len(geoLog) :
       geoLog[n].kind = "empty" /\ geoLog[n].id \in Ids(returned)

Validated == pc \in {"write_json", "write_geo"} \/ (pc = "done" /\ schema = "fetched")

\* C6: whatever validate() says, the records of `data` stay those
\* dedupe_shops returned, both artifacts are written from them, and the run
\* ends with status 0.
C6_ValidationNeverRemoves ==
  /\ (pc = "validate" \/ Validated) => data = returned
  /\ (pc = "done" /\ schema = "fetched") =>
       /\ exit = Some(0)
       /\ jsonOut = Some(returned)
       /\ geoOut # None
       /\ {geoOut[1][n].id : n \in 1..Len(geoOut[1])}
            = {returned[i].id : i \in Located(returned)}

\* C6 witness: a run ended after a record failed validation.
C6_Witness ==
  /\ pc = "done"
  /\ \E n \in 1..Len(vlog) : vlog[n] = "invalid"

NumValid == Cardinality({n \in 1..Len(vlog) : vlog[n] = "valid"})

\* C7: 0 <= valid_count <= records examined <= total_records throughout,
\* valid_count is the number of records that passed, and the loop examines
\* every record whatever raised.
C7_ValidCountBound ==
  /\ 0 <= ok /\ ok <= vi - 1 /\ vi - 1 <= Len(data)
  /\ Len(vlog) = vi - 1
  /\ ok = NumValid
  /\ Validated => Len(vlog) = Len(returned)

\* C7 witness: the loop ended after a failure followed by a success.
C7_Witness ==
  /\ pc = "write_json"
  /\ vlog = <<"invalid", "valid">>

\* C8: with the seeds file missing or the schema not fetched, the run stops
\* there, ends with a non-zero status, and neither artifact is written.
C8_FatalWritesNothing ==
  /\ seedsFile = "missing" => pc \in {"load_seeds", "done"}
  /\ schema = "failed" => pc = "done"
  /\ (seedsFile = "missing" \/ schema = "failed") =>
       /\ jsonOut = None /\ geoOut = None
       /\ pc = "done" => (exit # None /\ exit # Some(0))

\* C8 witness: the schema fetch failed in a run that holds records.
C8_Witness ==
  /\ pc = "done"
  /\ schema = "failed"
  /\ Len(shops) > 0

\* C9: a run whose seeds name no source ends with a non-zero status and
\* writes no artifact.
C9_NoSourcesIsFatal ==
  (seedsFile \in {"empty", "no_sources"} /\ pc = "done") =>
    /\ exit # Some(0)
    /\ jsonOut = None /\ geoOut = None

\* C10: after a geocoding call that did not succeed, the record has neither
\* lat nor lng.
C10_FailedGeocodeLeavesUnset ==
  (pc = "geo_sleep" /\ geoLog[Len(geoLog)].kind # "ok") =>
    /\ shops[gi].location.lat = None
    /\ shops[gi].location.lng = None

Called(i) == \E n \in 1..Len(events) : events[n].e = "call" /\ events[n].i = i

\* C11: geocode_missing issues no geocoding call for a record that has both
\* a latitude and a longitude, and leaves its coordinates as they were.
C11_LocatedRecordNotGeocoded ==
  \A i \in 1..Len(given) :
    HasBoth(given[i]) =>
      /\ ~Called(i)
      /\ shops[i].location = given[i].location

\* geocode_missing has returned from a list that held a record with both
\* coordinates (one of them 0) and a record it had to look up
C11_Witness ==
  /\ mode = "geocode" /\ pc = "geo_returned"
  /\ \E i \in 1..Len(given) :
       HasBoth(given[i]) /\ given[i].location.lat = Some(0)
  /\ \E i \in 1..Len(given) : Called(i)

\* a contact field counts as empty when it is absent or the empty string
EmptyField(x) == x = None \/ x[1] = <<>>

ContactFields == {"website", "email", "phone"}

\* same name up to case, both geolocated, closer than the threshold
NearSameName(r, s) ==
  /\ Lower(r.name) = Lower(s.name)
  /\ HasBoth(r) /\ HasBoth(s)
  /\ haversine_m2(r.location.lat[1], r.location.lng[1],
                  s.location.lat[1], s.location.lng[1])
       < ThresholdMetres * ThresholdMetres

\* the step of the second pass discards the record it scans
Discards == pc = "scan" /\ si' = si + 1 /\ Len(returned') = Len(returned)

\* C12: when the second pass of dedupe_shops discards a record as a duplicate
\* of a kept record, every website, email and phone field that is empty on
\* the kept record and non-empty on the duplicate is filled from the
\* duplicate.
C12_DiscardBackfillsContact ==
  [][ Discards =>
        \E j \in 1..Len(returned) :
          /\ NearSameName(returned[j], deduped[si])
          /\ \A h \in 1..Len(returned) : h # j => returned'[h] = returned[h]
          /\ \A f \in ContactFields :
               (EmptyField(returned[j].contact[f])
                  /\ ~EmptyField(deduped[si].contact[f]))
                 => returned'[j].contact[f] = deduped[si].contact[f] ]_vars

\* two same-named geolocated records 222 m apart with different postcodes,
\* one with only an email and the other with only a phone, came back as one
\* record that carries both
C12_Witness ==
  /\ mode = "scan" /\ pc = "returned"
  /\ Len(shops) = 2 /\ Len(returned) = 1
  /\ shops[1].location.postcode # shops[2].location.postcode
  /\ {shops[1].location.lat, shops[2].location.lat} = {Some(2), Some(4)}
  /\ \E a, b \in 1..2 :
       /\ EmptyField(shops[a].contact.phone) /\ EmptyField(shops[b].contact.email)
       /\ returned[1].contact.email = shops[a].contact.email
       /\ returned[1].contact.phone = shops[b].contact.phone
       /\ ~EmptyField(returned[1].contact.email)
       /\ ~EmptyField(returned[1].contact.phone)

\* C13: every record map_to_shops produces has a non-empty name and a
\* non-empty slug, whatever the candidate (empty or punctuation-only name,
\* postcode and county included).
C13_NameAndSlugNonEmpty ==
  pc \in {"mapped", "remapped"} =>
    \A i \in 1..Len(shops) : shops[i].name # <<>> /\ shops[i].slug # <<>>

\* C14: two candidates with the same (name, postcode) pair are given the
\* same slug by map_to_shops, whatever their county, address and contact.
C14_SameNamePostcodeSameSlug ==
  pc \in {"mapped", "remapped"} =>
    \A i, j \in 1..Len(raw) :
      (raw[i].name = raw[j].name /\ raw[i].postcode = raw[j].postcode)
        => shops[i].slug = shops[j].slug

\* C14 as the code has it: two candidates with the same (name, postcode) pair
\* are given the same slug whatever their address and contact, and whatever
\* their county when the postcode is not empty after whitespace is
\* collapsed; with an empty postcode the same county (after whitespace is
\* collapsed) gives the same slug.
C14_SameSlugUnlessCountyFallback ==
  pc \in {"mapped", "remapped"} =>
    \A i, j \in 1..Len(raw) :
      ( /\ raw[i].name = raw[j].name /\ raw[i].postcode = raw[j].postcode
        /\ \/ normalize_whitespace(raw[i].postcode) # <<>>
           \/ normalize_whitespace(raw[i].county)
                = normalize_whitespace(raw[j].county) )
        => shops[i].slug = shops[j].slug

\* two candidates with one name and one non-empty postcode, which differ in
\* county, address and contact, were given one non-empty slug
C14_Witness ==
  /\ mode = "map" /\ pc = "mapped" /\ Len(raw) = 2
  /\ raw[1].name = raw[2].name /\ raw[1].postcode = raw[2].postcode
  /\ raw[1].postcode = <<"p">>
  /\ raw[1].county # raw[2].county
  /\ raw[1].address # raw[2].address
  /\ raw[1].contact # raw[2].contact
  /\ shops[1].slug = shops[2].slug /\ shops[1].slug # <<>>

\* every field but the id
SameButId(a, b) == [a EXCEPT !.id = 0] = [b EXCEPT !.id = 0]

\* C16: map_to_shops applied to the candidate form of a record it produced
\* yields a record equal to it in every field except the id.
C16_NormalizationIdempotent ==
  pc = "remapped" =>
    /\ Len(again) = Len(shops)
    /\ \A i \in 1..Len(shops) : SameButId(again[i], shops[i])

\* a candidate whose name had stray whitespace and whose postcode was in
\* lowercase was normalized twice, under two ids
C16_Witness ==
  /\ mode = "map" /\ pc = "remapped"
  /\ \E i \in 1..Len(raw) :
       /\ raw[i].name = <<" ", "a", " ", " ", "B", " ">>
       /\ raw[i].postcode = <<"p">>
       /\ shops[i].name = <<"a", " ", "B">>
       /\ shops[i].location.postcode = <<"P">>
       /\ shops[i].slug = <<"a", "-", "b", "-", "p">>
       /\ again[i].id # shops[i].id
       /\ again[i].name = shops[i].name

LowerAlnum ==
  { "a", "b", "c", "d", "e", "f", "g", "h", "i", "j", "k", "l", "m",
    "n", "o", "p", "q", "r", "s", "t", "u", "v", "w", "x", "y", "z",
    "0", "1", "2", "3", "4", "5", "6", "7", "8", "9" }

\* id is the prefix followed by exactly ten lowercase letters or digits
HasIdFormat(id, prefix) ==
  /\ Len(id) = Len(prefix) + 10
  /\ SubSeq(id, 1, Len(prefix)) = prefix
  /\ \A k \in (Len(prefix) + 1)..Len(id) : id[k] \in LowerAlnum

\* C15: every generated id is shop_ followed by exactly 10 characters drawn
\* from lowercase letters and digits.
C15_IdIsShopPrefixed ==
  (mode = "rand_id" /\ pc = "constructed") =>
    \A i \in 1..Len(shops) : HasIdFormat(shops[i].id, <<"s", "h", "o", "p", "_">>)

\* C15 as the code has it: every generated id is farm_ followed by exactly
\* 10 characters drawn from lowercase letters and digits.
C15_IdIsFarmPrefixed ==
  (mode = "rand_id" /\ pc = "constructed") =>
    \A i \in 1..Len(shops) : HasIdFormat(shops[i].id, <<"f", "a", "r", "m", "_">>)

\* a record was built with a generated id that holds a letter and a digit
C15_Witness ==
  /\ mode = "rand_id" /\ pc = "constructed" /\ Len(shops) = 1
  /\ \E k, h \in 6..Len(shops[1].id) :
       shops[1].id[k] = "z" /\ shops[1].id[h] = "9"

\* shops[a], shops[b], shops[c] are three records that all entered the second
\* pass, a-b and b-c closer than the threshold, a-c not
Chain(a, b, c) ==
  /\ Len(shops) = 3 /\ Len(deduped) = 3
  /\ {a, b, c} = 1..3
  /\ NearSameName(shops[a], shops[b])
  /\ NearSameName(shops[b], shops[c])
  /\ Lower(shops[a].name) = Lower(shops[c].name)
  /\ ~NearSameName(shops[a], shops[c])

\* shops[b] is scanned before the other two
ScannedFirst(b) ==
  \A k \in 1..Len(shops) : k # b => SortKeyLess(shops[b], shops[k])

SameButContact(a, b) == [a EXCEPT !.contact = None] = [b EXCEPT !.contact = None]

\* new is old with nothing changed but contact fields that were empty
OnlyEmptyContactSet(old, new) ==
  /\ SameButContact(old, new)
  /\ \A f \in ContactFields :
       new.contact[f] # old.contact[f] => EmptyField(old.contact[f])

\* C18: the only change dedupe_shops makes to a record is setting a website,
\* email or phone field of a kept record that was empty at that moment: a
\* populated contact field is never overwritten and every other field of
\* every surviving record stays as it was on input.
C18_OnlyEmptyContactFieldsSet ==
  [][ mode = "scan" =>
        /\ \A k \in 1..Len(deduped') : deduped'[k] = shops[deduped'[k].id]
        /\ \A h \in 1..Len(returned') :
             IF h <= Len(returned)
             THEN OnlyEmptyContactSet(returned[h], returned'[h])
             ELSE returned'[h] = shops[returned'[h].id] ]_vars

\* a kept record came back with its phone filled from one duplicate and its
\* own email kept against the different email of another duplicate
C18_Witness ==
  /\ mode = "scan" /\ pc = "returned"
  /\ \E n \in 1..Len(returned) : \E d \in 1..Len(shops) :
       LET r == returned[n]
           o == shops[returned[n].id]
       IN  /\ EmptyField(o.contact.phone) /\ ~EmptyField(r.contact.phone)
           /\ d \notin Ids(returned)
           /\ NearSameName(o, shops[d])
           /\ ~EmptyField(o.contact.email) /\ ~EmptyField(shops[d].contact.email)
           /\ shops[d].contact.email # o.contact.email
           /\ r.contact.email = o.contact.email
           /\ SameButContact(o, r)

\* C19: the first pass of dedupe_shops never merges fields: each record it
\* keeps has exactly the field values it had on input, none taken from a
\* dropped member of its key group.
C19_Phase1KeepsRecordsWhole ==
  (mode = "dedupe" /\ pc \in {"dedupe2", "returned"}) =>
    \A k \in 1..Len(deduped) : deduped[k] = shops[deduped[k].id]

\* the first pass dropped a record that had a website its key group's
\* survivor lacks, and the survivor still has none
C19_Witness ==
  /\ mode = "dedupe" /\ pc = "dedupe2"
  /\ \E k \in 1..Len(deduped) : \E d \in 1..Len(shops) :
       /\ d \notin Ids(deduped)
       /\ key_name_postcode(shops[d]) = key_name_postcode(deduped[k])
       /\ ~EmptyField(shops[d].contact.website)
       /\ EmptyField(deduped[k].contact.website)
       /\ deduped[k] = shops[deduped[k].id]

\* positions of the trace of geocode_missing that hold an event of kind e
EventsOf(e) == {n \in 1..Len(events) : events[n].e = e}

\* calls started and not yet answered
InFlight == Cardinality(EventsOf("call")) - Cardinality(EventsOf("answer"))

\* C20: the geocoding calls of geocode_missing are strictly sequential and
\* rate-limited: at most one call is in flight, and between any two
\* consecutive calls lie the end of the first (answer or failure) and, after
\* it, a delay step.
C20_CallsSequentialAndDelayed ==
  /\ InFlight \in {0, 1}
  /\ \A m, n \in EventsOf("call") :
       m < n =>
         \E a \in EventsOf("answer") : \E d \in EventsOf("sleep") :
           /\ m < a /\ a < d /\ d < n
           /\ events[a].i = events[m].i /\ events[d].i = events[m].i

\* a call that failed was followed by the delay and then by the next call
C20_Witness ==
  /\ mode = "geocode"
  /\ Len(geoLog) >= 2
  /\ geoLog[1].kind = "error"
  /\ Cardinality(EventsOf("call")) >= 2
  /\ Cardinality(EventsOf("sleep")) >= 1

\* some per-record work of the run has been done: a geocoding call was
\* issued, or the first pass of dedupe_shops has run
RecordWorkDone == events # <<>> \/ pc \in {"dedupe2", "fetch_schema"}

\* C21: the schema document is acquired at pipeline start: as long as it has
\* not been asked for, no geocoding call has been issued and deduplication
\* has not run, so that an unreachable schema aborts the run before any
\* per-record work.
C21_SchemaBeforeRecordWork ==
  /\ schema = "none" => ~RecordWorkDone
  /\ schema = "failed" => events = <<>> /\ deduped = <<>> /\ returned = <<>>

\* the stage of main a control point belongs to: 1 extract, 2 normalize,
\* 3 geocode, 4 and 5 the two passes of deduplicate, 6 validate, 7 emit,
\* 8 the run is over
StageOf(p) ==
  CASE p \in {"load_seeds", "crawl"} -> 1
    [] p = "map" -> 2
    [] p \in {"geocode", "geo_inflight", "geo_sleep"} -> 3
    [] p = "dedupe1" -> 4
    [] p = "dedupe2" -> 5
    [] p \in {"fetch_schema", "validate"} -> 6
    [] p \in {"write_json", "write_geo"} -> 7
    [] OTHER -> 8

\* the stage the run is leaving has gone through its whole collection
StageFinished ==
  /\ StageOf(pc) = 2 => Len(shops') = Len(raw)
  /\ StageOf(pc) = 3 => pc = "geocode" /\ gi > Len(shops)
  /\ StageOf(pc) = 4 => Ids(deduped') \subseteq Ids(shops)
  /\ StageOf(pc) = 5 => Ids(returned') \subseteq Ids(deduped)
  /\ StageOf(pc) = 6 => vi > Len(data) /\ Len(data) = Len(shops)
  /\ StageOf(pc) = 7 => jsonOut' # None /\ geoOut' # None /\ exit' = Some(0)

\* C22: in a run of main the stages execute in the order extract, normalize,
\* geocode, deduplicate (first pass, then second pass), validate, emit: a
\* step stays in its stage, or moves to the next stage once the stage has
\* processed its whole collection, or aborts the run; no stage is entered
\* again.
C22_StagesInOrder ==
  [][ (mode = "main" \/ mode = "stages") =>
        ( \/ StageOf(pc') = StageOf(pc)
          \/ StageOf(pc') = StageOf(pc) + 1 /\ StageFinished
          \/ pc' = "done" /\ exit' = Some(1) ) ]_vars

\* a run that geocoded two records, validated and wrote both artifacts
C22_Witness ==
  /\ mode = "stages" /\ pc = "done" /\ exit = Some(0)
  /\ Len(geoLog) = 2 /\ vlog # <<>>
  /\ schema = "fetched" /\ jsonOut # None /\ geoOut # None

\* the record without its coordinates
Uncoordinated(s) == [s EXCEPT !.location.lat = None, !.location.lng = None]

\* C23: geocode_missing changes only the lat and lng fields of records: the
\* list keeps its records in their places and every other field of every
\* record stays as it was, whether the call succeeded or failed.
C23_OnlyCoordinatesChange ==
  mode = "geocode" =>
    /\ Len(shops) = Len(given)
    /\ \A i \in 1..Len(shops) : Uncoordinated(shops[i]) = Uncoordinated(given[i])

\* geocode_missing has returned after a call that failed, which left its
\* record as it was, and a call that set both coordinates of its record
C23_Witness ==
  /\ mode = "geocode" /\ pc = "geo_returned"
  /\ \E n, m \in 1..Len(geoLog) :
       /\ geoLog[n].kind = "error" /\ shops[geoLog[n].i] = given[geoLog[n].i]
       /\ geoLog[m].kind = "ok" /\ HasBoth(shops[geoLog[m].i])
       /\ shops[geoLog[m].i] # given[geoLog[m].i]

\* C24: map_to_shops keeps what a candidate already carries: a candidate
\* that has an id keeps it, and a candidate that has offerings keeps them.
C24_CarriedIdAndOfferingsKept ==
  (mode = "map" /\ pc \in {"mapped", "remapped"}) =>
    \A i \in 1..Len(raw) :
      /\ raw[i].id # None => shops[i].id = raw[i].id[1]
      /\ raw[i].offerings # <<>> => shops[i].offerings = raw[i].offerings

IdSeq(list) == [i \in 1..Len(list) |-> list[i].id]

\* a can be had from b by leaving elements out
RECURSIVE IsSubseq(_, _)
IsSubseq(a, b) ==
  IF a = <<>> THEN TRUE
  ELSE IF b = <<>> THEN FALSE
  ELSE IF a[1] = b[1] THEN IsSubseq(Tail(a), Tail(b))
  ELSE IsSubseq(a, Tail(b))

\* C25: the list dedupe_shops returns is a subsequence of the first pass's
\* survivors sorted by (lowercased name, postcode), so it is in
\* non-decreasing order of that key; the flat list holds the records in that
\* order and the geospatial features follow it too.
C25_OutputInSortedOrder ==
  (mode \in {"main", "stages"} /\ StageOf(pc) >= 6) =>
    /\ IsSubseq(IdSeq(returned), IdSeq(SortShops(deduped)))
    /\ \A i, j \in 1..Len(returned) :
         i < j => ~SortKeyLess(returned[j], returned[i])
    /\ jsonOut # None => IdSeq(jsonOut[1]) = IdSeq(returned)
    /\ geoOut # None => IsSubseq(IdSeq(geoOut[1]), IdSeq(returned))

\* both artifacts were written with two records that the sort had put in
\* the order opposite to the one they were extracted in
C25_Witness ==
  /\ mode = "stages" /\ pc = "done" /\ exit = Some(0)
  /\ IdSeq(returned) = <<2, 1>>
  /\ SortKeyLess(returned[1], returned[2])
  /\ IdSeq(jsonOut[1]) = <<2, 1>>
  /\ IdSeq(geoOut[1]) = <<2, 1>>

\* the node has a name that NAME_RE recognizes
HasRecognizableName(n) == NAME_RE_search(normalize_whitespace(n.name))

\* the node has a postcode: the text of the hinted element or, failing
\* that, a UK postcode somewhere in its text
HasPostcode(n) ==
  \/ normalize_whitespace(n.pc) # <<>>
  \/ PC_RE_search(JoinTexts(<<n.name, n.addr, n.pc, n.rest>>)) # <<>>

\* the positions of the nodes that are not discarded
KeptNodes == {i \in 1..Len(nodes) : HasRecognizableName(nodes[i]) \/ HasPostcode(nodes[i])}

\* C26: parse_items_from_html discards a node exactly when it has neither a
\* recognizable name nor a postcode; every other node yields exactly one
\* candidate, and the candidates are in page order.
C26_DiscardsOnlyNamelessWithoutPostcode ==
  (mode = "parse" /\ pc = "parsed") =>
    /\ Len(raw) = Cardinality(KeptNodes)
    /\ {Len(raw[k].address) : k \in 1..Len(raw)} = KeptNodes
    /\ \A k, h \in 1..Len(raw) :
         k < h => Len(raw[k].address) < Len(raw[h].address)

\* a page from which exactly one node was discarded: a node without a
\* recognizable name and without a hinted postcode was kept for the postcode
\* in its text, a node with a punctuation-only name and no postcode was not
C26_Witness ==
  /\ mode = "parse" /\ pc = "parsed"
  /\ Len(nodes) >= 2 /\ Len(raw) = Len(nodes) - 1
  /\ \E i \in 1..Len(nodes) :
       /\ ~HasRecognizableName(nodes[i]) /\ nodes[i].pc = <<>>
       /\ i \in KeptNodes
  /\ \E i \in 1..Len(nodes) : nodes[i].name = <<"!">> /\ i \notin KeptNodes

\* C27: a run of main over a finite list, whose external calls all return
\* or fail, eventually ends: with both artifacts written, or aborted by a
\* fatal error.
C27_RunTerminates ==
  <>( /\ pc = "done"
      /\ \/ exit = Some(0) /\ jsonOut # None /\ geoOut # None
         \/ exit = Some(1) /\ jsonOut = None /\ geoOut = None )

\* a run ended with both artifacts after two geocoding calls, one of which
\* failed
C27_Witness ==
  /\ mode = "stages" /\ pc = "done" /\ exit = Some(0)
  /\ jsonOut # None /\ geoOut # None
  /\ Len(geoLog) = 2
  /\ \E n \in 1..Len(geoLog) : geoLog[n].kind = "error"

LowerNames(list) == {Lower(list[i].name) : i \in 1..Len(list)}

\* C28: a record is discarded in the second pass of dedupe_shops only if the
\* returned list holds a record of the same lowercased name, both having
\* coordinates, less than 0.25 km from it; so a record without coordinates
\* is never discarded there, and every lowercased name that enters the
\* second pass is in the returned list.
C28_Phase2DropsOnlyNearSameName ==
  (mode = "dedupe" /\ pc = "returned") =>
    /\ \A k \in 1..Len(deduped) :
         deduped[k].id \notin Ids(returned) =>
           \E n \in 1..Len(returned) : NearSameName(returned[n], deduped[k])
    /\ \A k \in 1..Len(deduped) :
         ~HasBoth(deduped[k]) => deduped[k].id \in Ids(returned)
    /\ LowerNames(deduped) = LowerNames(returned)

\* the second pass discarded a record, and the record that took the merge
\* has its lowercased name and lies less than 0.25 km from it
C28_Witness ==
  /\ mode = "dedupe" /\ pc = "returned"
  /\ \E k \in 1..Len(deduped) :
       /\ deduped[k].id \notin Ids(returned)
       /\ deduped[k].name # returned[1].name
       /\ NearSameName(returned[1], deduped[k])

\* C29: dedupe_shops applied to the list it returned gives back the same
\* records in the same order with the same field values.
C29_DedupeIdempotent ==
  (mode = "scan" /\ pc = "redone") => again = returned

\* dedupe_shops was applied again to a list of two records, one of which had
\* taken a merge and a contact field in the first application
C29_Witness ==
  /\ mode = "scan" /\ pc = "redone"
  /\ Len(shops) = 3 /\ Len(returned) = 2 /\ Len(again) = 2
  /\ \E n \in 1..2 : returned[n] # shops[returned[n].id]

\* no two records of one key group have the same richness score
NoTies(list) ==
  \A i, j \in 1..Len(list) :
    (i # j /\ key_name_postcode(list[i]) = key_name_postcode(list[j]))
      => score(list[i]) # score(list[j])

\* C30: for two lists that are permutations of each other and in which no
\* two records of one key group have equal richness scores, dedupe_shops
\* returns the same records in the same order with the same contact fields.
C30_OrderIndependentWithoutTies ==
  (mode = "permute" /\ pc = "redone" /\ NoTies(shops)) => again = returned

\* three records without ties, given in two different orders: the first pass
\* dropped one, the second pass merged another, and both orders gave the
\* same single record
C30_Witness ==
  /\ mode = "permute" /\ pc = "redone"
  /\ NoTies(shops) /\ given # shops
  /\ Len(shops) = 3 /\ Len(deduped) = 2 /\ Len(returned) = 1
  /\ returned[1] # shops[returned[1].id]
  /\ again = returned

====
